---- MODULE Spec2Model ----
(***************************************************************************)
(* MurmurHash3 (crate mur3): the one-shot functions murmurhash3_x86_32 and *)
(* murmurhash3_x64_128 and the incremental hashers Hasher32 / Hasher128.   *)
(*                                                                         *)
(* Machine words.  TLC's integers are 32-bit signed, so a u32 / u64 is     *)
(* kept at its full width as the tuple of its bytes, least significant     *)
(* first: the u32 0x11223344 is <<\h44, \h33, \h22, \h11>>.  Every         *)
(* operation below is the wrapping (mod 2^32 / mod 2^64) operation of the  *)
(* source on that representation.  A pointer into a slice or into buf is   *)
(* its byte offset from the start (offset p is element p + 1 of the tuple).*)
(***************************************************************************)
EXTENDS Integers, Sequences, FiniteSets, TLC

VARIABLES kind, hasher, seed, msg, input, prev, op, ret, fault

vars == <<kind, hasher, seed, msg, input, prev, op, ret, fault>>

(***************************************************************************)
(* Bounds of the model.                                                    *)
(***************************************************************************)
\* most bytes ever written to one Hasher32
MaxInput32 == 9
\* most bytes ever written to one Hasher128
MaxInput128 == 33

(***************************************************************************)
(* Word arithmetic on little-endian byte tuples.                           *)
(***************************************************************************)
\* the function f on 1..n as the tuple of its values, each evaluated once
Tuple(f) == f \o <<>>

RECURSIVE BitXor(_, _, _)
\* bitwise exclusive or of two naturals below 2^n
BitXor(a, b, n) ==
    IF n = 0 THEN 0
    ELSE ((a + b) % 2) + 2 * BitXor(a \div 2, b \div 2, n - 1)

\* the exclusive or of two 4-bit values, tabulated once
Xor4 == [a \in 0..15 |-> [b \in 0..15 |-> BitXor(a, b, 4)]]

\* u8 ^ u8
ByteXor(a, b) == 16 * Xor4[a \div 16][b \div 16] + Xor4[a % 16][b % 16]

\* x ^ y on words of equal width
WXor(x, y) == Tuple([i \in 1..Len(x) |-> ByteXor(x[i], y[i])])

\* 2^s for 0 <= s <= 8
Pow2(s) == CASE s = 0 -> 1 [] s = 1 -> 2 [] s = 2 -> 4 [] s = 3 -> 8 [] s = 4 -> 16
             [] s = 5 -> 32 [] s = 6 -> 64 [] s = 7 -> 128 [] OTHER -> 256

\* byte j of word x, 0 outside the word
Limb(x, j) == IF j \in 1..Len(x) THEN x[j] ELSE 0

\* x >> r (logical), 0 <= r < width
WShr(x, r) ==
    LET q == r \div 8
        s == r % 8
    IN  Tuple([i \in 1..Len(x) |->
            (Limb(x, i + q) \div Pow2(s)) + ((Limb(x, i + q + 1) * Pow2(8 - s)) % 256)])

\* x << r (bits shifted out are lost), 0 <= r < width
WShl(x, r) ==
    LET q == r \div 8
        s == r % 8
    IN  Tuple([i \in 1..Len(x) |->
            ((Limb(x, i - q) * Pow2(s)) % 256) + (Limb(x, i - q - 1) \div Pow2(8 - s))])

\* x.rotate_left(r), 0 < r < width
WRotl(x, r) ==
    LET n == Len(x)
        q == r \div 8
        s == r % 8
        at(j) == x[((j - 1 + 2 * n) % n) + 1]
    IN  Tuple([i \in 1..n |->
            ((at(i - q) * Pow2(s)) % 256) + (at(i - q - 1) \div Pow2(8 - s))])

RECURSIVE AddFrom(_, _, _, _)
\* bytes i.. of x + y with carry c in, the carry out of the top byte dropped
AddFrom(x, y, i, c) ==
    IF i > Len(x) THEN <<>>
    ELSE LET t == x[i] + y[i] + c
         IN  <<t % 256>> \o AddFrom(x, y, i + 1, t \div 256)

\* x.wrapping_add(y)
WAdd(x, y) == AddFrom(x, y, 1, 0)

RECURSIVE ColSum(_, _, _, _)
\* sum of x[i] * y[k + 1 - i] for i in i..k: column k of the long multiplication
ColSum(x, y, k, i) ==
    IF i > k THEN 0 ELSE x[i] * y[k + 1 - i] + ColSum(x, y, k, i + 1)

RECURSIVE MulFrom(_, _, _, _)
\* bytes k.. of x * y with carry c in, everything above the width dropped
MulFrom(x, y, k, c) ==
    IF k > Len(x) THEN <<>>
    ELSE LET t == ColSum(x, y, k, 1) + c
         IN  <<t % 256>> \o MulFrom(x, y, k + 1, t \div 256)

\* x.wrapping_mul(y)
WMul(x, y) == MulFrom(x, y, 1, 0)

\* the natural n < 2^31 as a u32
U32(n) == <<n % 256, (n \div 256) % 256, (n \div 65536) % 256, (n \div 16777216) % 256>>

\* the natural n < 2^31 as a u64
U64(n) == U32(n) \o <<0, 0, 0, 0>>

\* `x as u64` of a u32: zero extension
AsU64(x) == x \o <<0, 0, 0, 0>>

\* `x as u32` of a u64: truncation to the low 32 bits
AsU32(x) == SubSeq(x, 1, 4)

\* `b as u32` / `b as u64` of a u8, at width w bytes
Widen(b, w) == Tuple([i \in 1..w |-> IF i = 1 THEN b ELSE 0])

(***************************************************************************)
(* Raw memory: loads, word reads, copies.                                  *)
(***************************************************************************)
\* *p for a byte pointer at offset p of mem.  A load outside mem is undefined
\* behaviour; every access is also recorded by the *_accesses operators and
\* checked there, so the value chosen here is never observed.
Load(mem, p) == IF p + 1 \in DOMAIN mem THEN mem[p + 1] ELSE 0

\* from_le(ptr::read_unaligned(p as *const uN)): the n bytes at offset p,
\* first byte least significant
ReadLe(mem, p, n) == Tuple([i \in 1..n |-> Load(mem, p + i - 1)])

\* ptr::copy_nonoverlapping(src + soff, dst + doff, count), as the new dst
copy_nonoverlapping(src, soff, dst, doff, count) ==
    Tuple([i \in 1..Len(dst) |->
        IF doff < i /\ i <= doff + count THEN Load(src, soff + (i - 1 - doff)) ELSE dst[i]])

\* one memory access: bytes lo .. hi - 1 of a region of cap bytes
Access(region, lo, hi, cap) == [region |-> region, lo |-> lo, hi |-> hi, cap |-> cap]

\* the access stays inside its region
InBounds(a) == 0 <= a.lo /\ a.lo <= a.hi /\ a.hi <= a.cap

(***************************************************************************)
(* mod hash32                                                              *)
(***************************************************************************)
\* 0xcc9e2d51
C1_32 == <<\h51, \h2d, \h9e, \hcc>>
\* 0x1b873593
C2_32 == <<\h93, \h35, \h87, \h1b>>
\* 0xe6546b64
C3_32 == <<\h64, \h6b, \h54, \he6>>
\* 0x85ebca6b
C4_32 == <<\h6b, \hca, \heb, \h85>>
\* 0xc2b2ae35
C5_32 == <<\h35, \hae, \hb2, \hc2>>

fmix32(h) ==
    LET a == WXor(h, WShr(h, 16))
        b == WMul(a, C4_32)
        c == WXor(b, WShr(b, 13))
        d == WMul(c, C5_32)
    IN  WXor(d, WShr(d, 16))

feed32(h, k) ==
    LET k1 == WMul(k, C1_32)
        k2 == WRotl(k1, 15)
        k3 == WMul(k2, C2_32)
        h1 == WXor(h, k3)
        h2 == WRotl(h1, 13)
    IN  WAdd(WMul(h2, U32(5)), C3_32)

RECURSIVE tail_loop(_, _, _, _, _, _)
\* `for i in i..n { k ^= (*tail as uN) << (8 * i); tail = tail.add(1);
\*                  if tail == end { break; } }`: the word and the final tail
tail_loop(mem, tail, end, i, n, k) ==
    IF i >= n THEN [k |-> k, tail |-> tail]
    ELSE LET k2 == WXor(k, WShl(Widen(Load(mem, tail), Len(k)), 8 * i))
             t2 == tail + 1
         IN  IF t2 = end THEN [k |-> k2, tail |-> t2]
             ELSE tail_loop(mem, t2, end, i + 1, n, k2)

\* the iteration count of the tail loop of finish_tail32
TailIters32 == 3

\* finish_tail32 with a slip: the tail loop runs `0..2`, one iteration short
finish_tail32_two_iterations(mem, tail, end, total, h) ==
    LET lp == tail_loop(mem, tail, end, 0, 2, U32(0))
        k1 == WMul(lp.k, C1_32)
        k2 == WRotl(k1, 15)
        k3 == WMul(k2, C2_32)
        h1 == IF tail # end THEN WXor(h, k3) ELSE h
    IN  fmix32(WXor(h1, AsU32(total)))

\* finish_tail32 with a slip: the `if tail != end` guard is left out
finish_tail32_unguarded(mem, tail, end, total, h) ==
    LET lp == tail_loop(mem, tail, end, 0, TailIters32, U32(0))
        k1 == WMul(lp.k, C1_32)
        k2 == WRotl(k1, 15)
        k3 == WMul(k2, C2_32)
    IN  fmix32(WXor(WXor(h, k3), AsU32(total)))

finish_tail32(mem, tail, end, total, h) ==
    LET lp == tail_loop(mem, tail, end, 0, TailIters32, U32(0))
        k1 == WMul(lp.k, C1_32)
        k2 == WRotl(k1, 15)
        k3 == WMul(k2, C2_32)
        h1 == IF tail # end THEN WXor(h, k3) ELSE h
    IN  fmix32(WXor(h1, AsU32(total)))

\* the offsets finish_tail32 dereferences
finish_tail32_reads(mem, tail, end) ==
    IF tail # end THEN tail .. (tail_loop(mem, tail, end, 0, TailIters32, U32(0)).tail - 1)
    ELSE {}

RECURSIVE blocks32(_, _, _, _)
\* the block loop of murmurhash3_x86_32: n more blocks from offset start
blocks32(bytes, start, n, h) ==
    IF n = 0 THEN h
    ELSE blocks32(bytes, start + 4, n - 1, feed32(h, ReadLe(bytes, start, 4)))

\* murmurhash3_x86_32 with a slip: the block loop runs once too often
murmurhash3_x86_32_extra_block(bytes, s) ==
    LET nblocks == Len(bytes) \div 4 + 1
        h == blocks32(bytes, 0, nblocks, s)
    IN  finish_tail32(bytes, 4 * nblocks, Len(bytes), U64(Len(bytes)), h)

murmurhash3_x86_32(bytes, s) ==
    LET nblocks == Len(bytes) \div 4
        h == blocks32(bytes, 0, nblocks, s)
    IN  finish_tail32(bytes, 4 * nblocks, Len(bytes), U64(Len(bytes)), h)

(***************************************************************************)
(* mod hash128                                                             *)
(***************************************************************************)
\* 0x87c37b91114253d5
C1_64 == <<\hd5, \h53, \h42, \h11, \h91, \h7b, \hc3, \h87>>
\* 0x4cf5ad432745937f
C2_64 == <<\h7f, \h93, \h45, \h27, \h43, \had, \hf5, \h4c>>
\* 0x52dce729
C3_64 == <<\h29, \he7, \hdc, \h52, 0, 0, 0, 0>>
\* 0x38495ab5
C4_64 == <<\hb5, \h5a, \h49, \h38, 0, 0, 0, 0>>
\* 0xff51afd7ed558ccd
FMIX64_A == <<\hcd, \h8c, \h55, \hed, \hd7, \haf, \h51, \hff>>
\* 0xc4ceb9fe1a85ec53
FMIX64_B == <<\h53, \hec, \h85, \h1a, \hfe, \hb9, \hce, \hc4>>

fmix64(k) ==
    LET a == WXor(k, WShr(k, 33))
        b == WMul(a, FMIX64_A)
        c == WXor(b, WShr(b, 33))
        d == WMul(c, FMIX64_B)
    IN  WXor(d, WShr(d, 33))

\* the pair (h1, h2) after one 16-byte block (k1, k2)
\* feed128 with a slip: h2 is updated from the h1 of before this block
feed128_old_h1(h1, h2, k1, k2) ==
    LET k1a == WMul(WRotl(WMul(k1, C1_64), 31), C2_64)
        h1a == WXor(h1, k1a)
        h1b == WRotl(h1a, 27)
        h1c == WAdd(h1b, h2)
        h1d == WAdd(WMul(h1c, U64(5)), C3_64)
        k2a == WMul(WRotl(WMul(k2, C2_64), 33), C1_64)
        h2a == WXor(h2, k2a)
        h2b == WRotl(h2a, 31)
        h2c == WAdd(h2b, h1)
        h2d == WAdd(WMul(h2c, U64(5)), C4_64)
    IN  <<h1d, h2d>>

feed128(h1, h2, k1, k2) ==
    LET k1a == WMul(WRotl(WMul(k1, C1_64), 31), C2_64)
        h1a == WXor(h1, k1a)
        h1b == WRotl(h1a, 27)
        h1c == WAdd(h1b, h2)
        h1d == WAdd(WMul(h1c, U64(5)), C3_64)
        k2a == WMul(WRotl(WMul(k2, C2_64), 33), C1_64)
        h2a == WXor(h2, k2a)
        h2b == WRotl(h2a, 31)
        h2c == WAdd(h2b, h1d)
        h2d == WAdd(WMul(h2c, U64(5)), C4_64)
    IN  <<h1d, h2d>>

\* the iteration count of each of the two tail loops of finish_tail128
TailIters128 == 8

\* finish_tail128 with a slip: the second tail word is mixed like the first
\* (C1, rotl 31, C2)
finish_tail128_second_like_first(mem, tail, end, total, h1, h2) ==
    LET lp1 == tail_loop(mem, tail, end, 0, TailIters128, U64(0))
        k1  == WMul(WRotl(WMul(lp1.k, C1_64), 31), C2_64)
        lp2 == tail_loop(mem, lp1.tail, end, 0, TailIters128, U64(0))
        k2  == WMul(WRotl(WMul(lp2.k, C1_64), 31), C2_64)
        h1a == IF tail # end THEN WXor(h1, k1) ELSE h1
        h2a == IF tail # end /\ lp1.tail # end THEN WXor(h2, k2) ELSE h2
        h1b == WXor(h1a, total)
        h2b == WXor(h2a, total)
        h1c == WAdd(h1b, h2b)
        h2c == WAdd(h2b, h1c)
        h1d == fmix64(h1c)
        h2d == fmix64(h2c)
        h1e == WAdd(h1d, h2d)
        h2e == WAdd(h2d, h1e)
    IN  <<h1e, h2e>>

finish_tail128(mem, tail, end, total, h1, h2) ==
    LET lp1 == tail_loop(mem, tail, end, 0, TailIters128, U64(0))
        k1  == WMul(WRotl(WMul(lp1.k, C1_64), 31), C2_64)
        lp2 == tail_loop(mem, lp1.tail, end, 0, TailIters128, U64(0))
        k2  == WMul(WRotl(WMul(lp2.k, C2_64), 33), C1_64)
        h1a == IF tail # end THEN WXor(h1, k1) ELSE h1
        h2a == IF tail # end /\ lp1.tail # end THEN WXor(h2, k2) ELSE h2
        h1b == WXor(h1a, total)
        h2b == WXor(h2a, total)
        h1c == WAdd(h1b, h2b)
        h2c == WAdd(h2b, h1c)
        h1d == fmix64(h1c)
        h2d == fmix64(h2c)
        h1e == WAdd(h1d, h2d)
        h2e == WAdd(h2d, h1e)
    IN  <<h1e, h2e>>

\* the offsets finish_tail128 dereferences
finish_tail128_reads(mem, tail, end) ==
    IF tail = end THEN {}
    ELSE LET t1 == tail_loop(mem, tail, end, 0, TailIters128, U64(0)).tail
         IN  IF t1 = end THEN tail .. (t1 - 1)
             ELSE tail .. (tail_loop(mem, t1, end, 0, TailIters128, U64(0)).tail - 1)

RECURSIVE blocks128(_, _, _, _)
\* the block loop of murmurhash3_x64_128: n more blocks from offset start,
\* hs the pair (h1, h2)
blocks128(bytes, start, n, hs) ==
    IF n = 0 THEN hs
    ELSE blocks128(bytes, start + 16, n - 1,
                   feed128(hs[1], hs[2], ReadLe(bytes, start, 8), ReadLe(bytes, start + 8, 8)))

murmurhash3_x64_128(bytes, s) ==
    LET nblocks == Len(bytes) \div 16
        hs == blocks128(bytes, 0, nblocks, <<AsU64(s), AsU64(s)>>)
    IN  finish_tail128(bytes, 16 * nblocks, Len(bytes), U64(Len(bytes)), hs[1], hs[2])

(***************************************************************************)
(* struct Hasher32 { h: u32, buf: [u8; 4], len: usize, consume: u64 }      *)
(***************************************************************************)
\* the block size of the 32-bit engine: buf is [u8; 4]
BLOCK32 == 4

Hasher32_with_seed(s) ==
    [h |-> s, buf |-> Tuple([i \in 1..BLOCK32 |-> 0]), len |-> 0, consume |-> 0]

\* Hasher32_feed with a slip: consume counts blocks, not bytes
Hasher32_feed_counts_blocks(self, k) ==
    [self EXCEPT !.h = feed32(self.h, k), !.consume = self.consume + 1]

Hasher32_feed(self, k) ==
    [self EXCEPT !.h = feed32(self.h, k), !.consume = self.consume + 4]

Hasher32_finish32(self) ==
    finish_tail32(self.buf, 0, self.len, U64(self.consume + self.len), self.h)

\* Hasher32_finish with a slip: the result is sign-extended (as i32 as u64)
Hasher32_finish_sign_extended(self) ==
    LET r == Hasher32_finish32(self)
    IN  r \o (IF r[4] >= 128 THEN <<255, 255, 255, 255>> ELSE <<0, 0, 0, 0>>)

\* Hasher::finish of Hasher32: `self.finish32() as u64`
Hasher32_finish(self) == AsU64(Hasher32_finish32(self))

\* the buffer reads of finish32; the pending bytes are buf[0 .. len)
Hasher32_finish32_accesses(self) ==
    {Access("buf", r, r + 1, self.len) : r \in finish_tail32_reads(self.buf, 0, self.len)}

\* Hasher32_fits with a slip: <= for <, so a full block stays pending
Hasher32_fits_le(self, bytes) == self.len + Len(bytes) <= 4

\* `self.len + bytes.len() < 4`: the slice fits in the pending buffer
Hasher32_fits(self, bytes) == self.len + Len(bytes) < 4

\* `let cnt = 4 - self.len`: the bytes that complete the pending block
Hasher32_cnt(self) == 4 - self.len

\* Hasher32_fill with a slip: the completed block is read from the input slice,
\* not from buf, so the bytes that were pending are lost
Hasher32_fill_from_input(self, bytes) ==
    IF self.len # 0
    THEN LET cnt == 4 - self.len
             buf == copy_nonoverlapping(bytes, 0, self.buf, self.len, cnt)
             n   == ReadLe(bytes, 0, 4)
         IN  [self EXCEPT !.buf = buf, !.len = 0, !.h = feed32(self.h, n),
                          !.consume = self.consume + 4]
    ELSE self

\* the `else if self.len != 0` arm: complete the pending block from the front
\* of bytes and feed it
Hasher32_fill(self, bytes) ==
    IF self.len # 0
    THEN LET cnt == Hasher32_cnt(self)
             buf == copy_nonoverlapping(bytes, 0, self.buf, self.len, cnt)
             n   == ReadLe(buf, 0, 4)
         IN  Hasher32_feed([self EXCEPT !.buf = buf, !.len = 0], n)
    ELSE self

\* Hasher32_rest with a slip: the slice is not advanced past the bytes that
\* completed the pending block
Hasher32_rest_no_advance(self, bytes) == bytes

\* bytes after that arm: `slice::from_raw_parts(bytes.as_ptr().add(cnt),
\* bytes.len() - cnt)` when it ran, bytes as passed when it did not
Hasher32_rest(self, bytes) ==
    IF self.len # 0 THEN SubSeq(bytes, Hasher32_cnt(self) + 1, Len(bytes)) ELSE bytes

RECURSIVE Hasher32_blocks(_, _, _, _)
\* `for _ in 0..bytes.len() / 4`: n more blocks read at offset start
Hasher32_blocks(self, bytes, start, n) ==
    IF n = 0 THEN self
    ELSE Hasher32_blocks(Hasher32_feed(self, ReadLe(bytes, start, 4)), bytes, start + 4, n - 1)

\* Hasher32_write with a slip: the remainder is copied from the front of the
\* slice, not from behind the blocks read (`.add(start)` left out)
Hasher32_write_tail_from_front(self, bytes) ==
    IF Hasher32_fits(self, bytes)
    THEN [self EXCEPT !.buf = copy_nonoverlapping(bytes, 0, self.buf, self.len, Len(bytes)),
                      !.len = self.len + Len(bytes)]
    ELSE LET rest  == Hasher32_rest(self, bytes)
             n     == Len(rest) \div 4
             s2    == Hasher32_blocks(Hasher32_fill(self, bytes), rest, 0, n)
             len   == Len(rest) % 4
         IN  [s2 EXCEPT !.buf = IF len > 0
                                THEN copy_nonoverlapping(rest, 0, s2.buf, 0, len)
                                ELSE s2.buf,
                        !.len = len]

\* Hasher32_write with a slip: step 1 copies to the front of buf, not behind
\* the pending bytes
Hasher32_write_at_front(self, bytes) ==
    IF Hasher32_fits(self, bytes)
    THEN [self EXCEPT !.buf = copy_nonoverlapping(bytes, 0, self.buf, 0, Len(bytes)),
                      !.len = self.len + Len(bytes)]
    ELSE LET rest  == Hasher32_rest(self, bytes)
             n     == Len(rest) \div 4
             s2    == Hasher32_blocks(Hasher32_fill(self, bytes), rest, 0, n)
             start == 4 * n
             len   == Len(rest) % 4
         IN  [s2 EXCEPT !.buf = IF len > 0
                                THEN copy_nonoverlapping(rest, start, s2.buf, 0, len)
                                ELSE s2.buf,
                        !.len = len]

\* Hasher::write of Hasher32
Hasher32_write(self, bytes) ==
    IF Hasher32_fits(self, bytes)
    THEN [self EXCEPT !.buf = copy_nonoverlapping(bytes, 0, self.buf, self.len, Len(bytes)),
                      !.len = self.len + Len(bytes)]
    ELSE LET rest  == Hasher32_rest(self, bytes)
             n     == Len(rest) \div 4
             s2    == Hasher32_blocks(Hasher32_fill(self, bytes), rest, 0, n)
             start == 4 * n
             len   == Len(rest) % 4
         IN  [s2 EXCEPT !.buf = IF len > 0
                                THEN copy_nonoverlapping(rest, start, s2.buf, 0, len)
                                ELSE s2.buf,
                        !.len = len]

\* every memory access of Hasher32::write, in the slice it indexes
Hasher32_write_accesses(self, bytes) ==
    IF Hasher32_fits(self, bytes)
    THEN {Access("bytes", 0, Len(bytes), Len(bytes)),
          Access("buf", self.len, self.len + Len(bytes), BLOCK32)}
    ELSE LET cnt   == Hasher32_cnt(self)
             rest  == Hasher32_rest(self, bytes)
             n     == Len(rest) \div 4
             len   == Len(rest) % 4
         IN  (IF self.len # 0
              THEN {Access("bytes", 0, cnt, Len(bytes)),
                    Access("buf", self.len, self.len + cnt, BLOCK32),
                    Access("buf", 0, 4, BLOCK32)}
              ELSE {})
             \cup {Access("bytes", 4 * (j - 1), 4 * j, Len(rest)) : j \in 1..n}
             \cup (IF len > 0
                   THEN {Access("bytes", 4 * n, 4 * n + len, Len(rest)),
                         Access("buf", 0, len, BLOCK32)}
                   ELSE {})

(***************************************************************************)
(* struct Hasher128 { h1: u64, h2: u64, buf: [u8; 16], len: usize,         *)
(*                    consume: u64 }                                       *)
(***************************************************************************)
\* the block size of the 128-bit engine: buf is [u8; 16]
BLOCK128 == 16

\* Hasher128_with_seed with a slip: only h1 is seeded
Hasher128_with_seed_h1_only(s) ==
    [h1 |-> AsU64(s), h2 |-> U64(0), buf |-> Tuple([i \in 1..BLOCK128 |-> 0]),
     len |-> 0, consume |-> 0]

Hasher128_with_seed(s) ==
    [h1 |-> AsU64(s), h2 |-> AsU64(s), buf |-> Tuple([i \in 1..BLOCK128 |-> 0]),
     len |-> 0, consume |-> 0]

Hasher128_feed(self, k1, k2) ==
    LET hs == feed128(self.h1, self.h2, k1, k2)
    IN  [self EXCEPT !.h1 = hs[1], !.h2 = hs[2], !.consume = self.consume + 16]

\* Hasher128_finish128 with a slip: the length mixed in leaves out the pending bytes
Hasher128_finish128_consumed_only(self) ==
    finish_tail128(self.buf, 0, self.len, U64(self.consume), self.h1, self.h2)

\* Hasher128_finish128 with a slip: the tail ends at the end of the buffer
\* (buf.len()), not at the end of the pending bytes (self.len)
Hasher128_finish128_whole_buffer(self) ==
    finish_tail128(self.buf, 0, IF self.len = 0 THEN 0 ELSE 16,
                   U64(self.consume + self.len), self.h1, self.h2)

Hasher128_finish128(self) ==
    finish_tail128(self.buf, 0, self.len, U64(self.consume + self.len), self.h1, self.h2)

\* Hasher::finish of Hasher128: `self.finish128().0`
Hasher128_finish(self) == Hasher128_finish128(self)[1]

\* the buffer reads of finish128; the pending bytes are buf[0 .. len)
Hasher128_finish128_accesses(self) ==
    {Access("buf", r, r + 1, self.len) : r \in finish_tail128_reads(self.buf, 0, self.len)}

\* `self.len + bytes.len() < 16`: the slice fits in the pending buffer
\* Hasher128_fits with a slip: `<=` for `<`, a full buffer is left pending
Hasher128_fits_le(self, bytes) == self.len + Len(bytes) <= 16

Hasher128_fits(self, bytes) == self.len + Len(bytes) < 16

\* Hasher128_cnt with a slip: a whole block is copied behind the pending bytes
Hasher128_cnt_whole_block(self) == 16

\* `let cnt = 16 - self.len`: the bytes that complete the pending block
Hasher128_cnt(self) == 16 - self.len

\* Hasher128_fill with a slip: the two words of the completed block are fed
\* in the wrong order
Hasher128_fill_words_swapped(self, bytes) ==
    IF self.len # 0
    THEN LET cnt == Hasher128_cnt(self)
             buf == copy_nonoverlapping(bytes, 0, self.buf, self.len, cnt)
             n1  == ReadLe(buf, 0, 8)
             n2  == ReadLe(buf, 8, 8)
         IN  Hasher128_feed([self EXCEPT !.buf = buf, !.len = 0], n2, n1)
    ELSE self

\* the `else if self.len != 0` arm: complete the pending block from the front
\* of bytes and feed it
Hasher128_fill(self, bytes) ==
    IF self.len # 0
    THEN LET cnt == Hasher128_cnt(self)
             buf == copy_nonoverlapping(bytes, 0, self.buf, self.len, cnt)
             n1  == ReadLe(buf, 0, 8)
             n2  == ReadLe(buf, 8, 8)
         IN  Hasher128_feed([self EXCEPT !.buf = buf, !.len = 0], n1, n2)
    ELSE self

\* Hasher128_rest with a slip: the slice is not advanced past the bytes that
\* completed the pending block
Hasher128_rest_no_advance(self, bytes) == bytes

\* bytes after that arm: `slice::from_raw_parts(bytes.as_ptr().add(cnt),
\* bytes.len() - cnt)` when it ran, bytes as passed when it did not
Hasher128_rest(self, bytes) ==
    IF self.len # 0 THEN SubSeq(bytes, Hasher128_cnt(self) + 1, Len(bytes)) ELSE bytes

RECURSIVE Hasher128_blocks(_, _, _, _)
\* `for _ in 0..bytes.len() / 16`: n more blocks read at offset start
Hasher128_blocks(self, bytes, start, n) ==
    IF n = 0 THEN self
    ELSE Hasher128_blocks(
             Hasher128_feed(self, ReadLe(bytes, start, 8), ReadLe(bytes, start + 8, 8)),
             bytes, start + 16, n - 1)

\* Hasher::write of Hasher128
Hasher128_write(self, bytes) ==
    IF Hasher128_fits(self, bytes)
    THEN [self EXCEPT !.buf = copy_nonoverlapping(bytes, 0, self.buf, self.len, Len(bytes)),
                      !.len = self.len + Len(bytes)]
    ELSE LET rest  == Hasher128_rest(self, bytes)
             n     == Len(rest) \div 16
             s2    == Hasher128_blocks(Hasher128_fill(self, bytes), rest, 0, n)
             start == 16 * n
             len   == Len(rest) % 16
         IN  [s2 EXCEPT !.buf = IF len > 0
                                THEN copy_nonoverlapping(rest, start, s2.buf, 0, len)
                                ELSE s2.buf,
                        !.len = len]

\* every memory access of Hasher128::write, in the slice it indexes
Hasher128_write_accesses(self, bytes) ==
    IF Hasher128_fits(self, bytes)
    THEN {Access("bytes", 0, Len(bytes), Len(bytes)),
          Access("buf", self.len, self.len + Len(bytes), BLOCK128)}
    ELSE LET cnt   == Hasher128_cnt(self)
             rest  == Hasher128_rest(self, bytes)
             n     == Len(rest) \div 16
             len   == Len(rest) % 16
         IN  (IF self.len # 0
              THEN {Access("bytes", 0, cnt, Len(bytes)),
                    Access("buf", self.len, self.len + cnt, BLOCK128),
                    Access("buf", 0, 8, BLOCK128),
                    Access("buf", 8, 16, BLOCK128)}
              ELSE {})
             \cup {Access("bytes", 16 * (j - 1), 16 * (j - 1) + 8, Len(rest)) : j \in 1..n}
             \cup {Access("bytes", 16 * (j - 1) + 8, 16 * j, Len(rest)) : j \in 1..n}
             \cup (IF len > 0
                   THEN {Access("bytes", 16 * n, 16 * n + len, Len(rest)),
                         Access("buf", 0, len, BLOCK128)}
                   ELSE {})

(***************************************************************************)
(* The client: one hasher at a time, built by with_seed, fed by write and  *)
(* read by finish32 / finish128 / finish in any order.                     *)
(*   kind    which struct `hasher` is: "Hasher32" or "Hasher128"           *)
(*   hasher  the struct's fields                                           *)
(*   seed    the seed it was built with                                    *)
(*   msg     the message the client is hashing                             *)
(*   input   every byte passed to write since, in order: a prefix of the   *)
(*           message, so that every way of cutting the message into slices *)
(*           is a behaviour                                                *)
(*   prev    the kind of the call before the last: "none", "update" for a  *)
(*           with_seed or a write, "finalize" for any of the finish calls  *)
(*   op      the last call made                                            *)
(*   ret     what that call returned (<<>> for the unit type)              *)
(*   fault   the last call made a memory access outside its bounds         *)
(***************************************************************************)
\* the seeds tried: 0 and 0xdeadbeef
Seeds == {U32(0), <<\hef, \hbe, \had, \hde>>}

\* the messages the client hashes, written to the hasher piece by piece:
\* "ramp" has distinct bytes on both sides of 0x80, "ones" is all 0xff
Messages == {"ramp", "ones"}

\* the first n bytes of message m
Message(m, n) == Tuple([p \in 1..n |-> IF m = "ramp" THEN (7 + 37 * p) % 256 ELSE 255])

\* the next n bytes of the message after those already written
NextBytes(n) == SubSeq(Message(msg, Len(input) + n), Len(input) + 1, Len(input) + n)

FinishOps == {"finish32", "finish128", "finish"}

\* the kind of a call, as prev records it
KindOf(o) == IF o \in FinishOps THEN "finalize" ELSE "update"

\* let mut hasher = Hasher32::with_seed(s)
New32(s, m) ==
    /\ kind' = "Hasher32"
    /\ hasher' = Hasher32_with_seed(s)
    /\ seed' = s
    /\ msg' = m
    /\ input' = <<>>
    /\ op' = "with_seed"
    /\ ret' = <<>>
    /\ prev' = "none"
    /\ fault' = FALSE

\* let mut hasher = Hasher128::with_seed(s)
New128(s, m) ==
    /\ kind' = "Hasher128"
    /\ hasher' = Hasher128_with_seed(s)
    /\ seed' = s
    /\ msg' = m
    /\ input' = <<>>
    /\ op' = "with_seed"
    /\ ret' = <<>>
    /\ prev' = "none"
    /\ fault' = FALSE

\* hasher.write(bytes) on a Hasher32
Write32(bytes) ==
    /\ kind = "Hasher32"
    /\ Len(input) + Len(bytes) <= MaxInput32
    /\ hasher' = Hasher32_write(hasher, bytes)
    /\ input' = input \o bytes
    /\ op' = "write"
    /\ ret' = <<>>
    /\ prev' = KindOf(op)
    /\ fault' = \E a \in Hasher32_write_accesses(hasher, bytes) : ~InBounds(a)
    /\ UNCHANGED <<kind, seed, msg>>

\* hasher.write(bytes) on a Hasher128
Write128(bytes) ==
    /\ kind = "Hasher128"
    /\ Len(input) + Len(bytes) <= MaxInput128
    /\ hasher' = Hasher128_write(hasher, bytes)
    /\ input' = input \o bytes
    /\ op' = "write"
    /\ ret' = <<>>
    /\ prev' = KindOf(op)
    /\ fault' = \E a \in Hasher128_write_accesses(hasher, bytes) : ~InBounds(a)
    /\ UNCHANGED <<kind, seed, msg>>

\* Finish32 with a slip: finalizing drains the pending buffer
Finish32_draining ==
    /\ kind = "Hasher32"
    /\ ret' = Hasher32_finish32(hasher)
    /\ op' = "finish32"
    /\ prev' = KindOf(op)
    /\ fault' = \E a \in Hasher32_finish32_accesses(hasher) : ~InBounds(a)
    /\ hasher' = [hasher EXCEPT !.len = 0]
    /\ UNCHANGED <<kind, seed, msg, input>>

\* hasher.finish32(): takes &self
Finish32 ==
    /\ kind = "Hasher32"
    /\ ret' = Hasher32_finish32(hasher)
    /\ op' = "finish32"
    /\ prev' = KindOf(op)
    /\ fault' = \E a \in Hasher32_finish32_accesses(hasher) : ~InBounds(a)
    /\ UNCHANGED <<kind, hasher, seed, msg, input>>

\* Finish128 with a slip: finalizing folds the length into the running state
Finish128_folding ==
    /\ kind = "Hasher128"
    /\ ret' = Hasher128_finish128(hasher)
    /\ op' = "finish128"
    /\ prev' = KindOf(op)
    /\ fault' = \E a \in Hasher128_finish128_accesses(hasher) : ~InBounds(a)
    /\ hasher' = [hasher EXCEPT !.h1 = WXor(hasher.h1, U64(hasher.consume + hasher.len))]
    /\ UNCHANGED <<kind, seed, msg, input>>

\* hasher.finish128(): takes &self
Finish128 ==
    /\ kind = "Hasher128"
    /\ ret' = Hasher128_finish128(hasher)
    /\ op' = "finish128"
    /\ prev' = KindOf(op)
    /\ fault' = \E a \in Hasher128_finish128_accesses(hasher) : ~InBounds(a)
    /\ UNCHANGED <<kind, hasher, seed, msg, input>>

\* Hasher::finish(&hasher) on a Hasher32
Finish64_32 ==
    /\ kind = "Hasher32"
    /\ ret' = Hasher32_finish(hasher)
    /\ op' = "finish"
    /\ prev' = KindOf(op)
    /\ fault' = \E a \in Hasher32_finish32_accesses(hasher) : ~InBounds(a)
    /\ UNCHANGED <<kind, hasher, seed, msg, input>>

\* Hasher::finish(&hasher) on a Hasher128
Finish64_128 ==
    /\ kind = "Hasher128"
    /\ ret' = Hasher128_finish(hasher)
    /\ op' = "finish"
    /\ prev' = KindOf(op)
    /\ fault' = \E a \in Hasher128_finish128_accesses(hasher) : ~InBounds(a)
    /\ UNCHANGED <<kind, hasher, seed, msg, input>>

Init ==
    /\ \E s \in Seeds :
        /\ seed = s
        /\ \/ kind = "Hasher32" /\ hasher = Hasher32_with_seed(s)
           \/ kind = "Hasher128" /\ hasher = Hasher128_with_seed(s)
    /\ msg \in Messages
    /\ input = <<>>
    /\ op = "with_seed"
    /\ ret = <<>>
    /\ prev = "none"
    /\ fault = FALSE

Next ==
    \/ \E s \in Seeds, m \in Messages : New32(s, m)
    \/ \E s \in Seeds, m \in Messages : New128(s, m)
    \/ \E n \in 0..MaxInput32 : Write32(NextBytes(n))
    \/ \E n \in 0..MaxInput128 : Write128(NextBytes(n))
    \/ Finish32
    \/ Finish128
    \/ Finish64_32
    \/ Finish64_128

Spec == Init /\ [][Next]_vars

(***************************************************************************)
(* The claims.                                                             *)
(***************************************************************************)
\* the one-shot hash of everything written so far, for a hasher of kind k
OneShot(k, bytes, s) ==
    IF k = "Hasher32" THEN murmurhash3_x86_32(bytes, s) ELSE murmurhash3_x64_128(bytes, s)

\* what finish32 / finish128 would return on a hasher of kind k
Finalize(k, self) ==
    IF k = "Hasher32" THEN Hasher32_finish32(self) ELSE Hasher128_finish128(self)

\* the 64-bit value a finalize call of either form determines: finish32
\* zero-extended, the first half of finish128, finish as it is
First64(o, r) ==
    CASE o = "finish32"  -> AsU64(r)
      [] o = "finish128" -> r[1]
      [] OTHER           -> r

\* C1: whatever slices the message was written in (none, empty ones, single
\* bytes), a finish32 on a Hasher32 built with seed S returns
\* murmurhash3_x86_32 of the bytes written, with seed S.
ChunkedEqualsOneShot32 ==
    (kind = "Hasher32" /\ op = "finish32") => ret = murmurhash3_x86_32(input, seed)

\* C1 happens: a finish32 after writes that completed a pending block, mixed
\* blocks and left bytes pending, with the whole message written
ChunkedEqualsOneShot32_Witness ==
    /\ kind = "Hasher32" /\ op = "finish32" /\ prev = "update"
    /\ Len(input) = MaxInput32
    /\ hasher.consume >= 2 * BLOCK32 /\ hasher.len > 0
    /\ hasher.buf # SubSeq(input, hasher.consume + 1, hasher.consume + hasher.len)
                         \o SubSeq(Hasher32_with_seed(seed).buf, hasher.len + 1, BLOCK32)

\* C2: whatever slices the message was written in, a finish128 on a Hasher128
\* built with seed S returns the pair murmurhash3_x64_128 of the bytes
\* written, with seed S.
ChunkedEqualsOneShot128 ==
    (kind = "Hasher128" /\ op = "finish128") => ret = murmurhash3_x64_128(input, seed)

\* C2 happens: a finish128 after writes that completed a pending block, mixed
\* blocks and left more than one word pending, with the whole message written
ChunkedEqualsOneShot128_Witness ==
    /\ kind = "Hasher128" /\ op = "finish128" /\ prev = "update"
    /\ Len(input) = MaxInput128
    /\ hasher.consume >= BLOCK128 /\ hasher.len > 0
    /\ hasher.buf # SubSeq(input, hasher.consume + 1, hasher.consume + hasher.len)
                         \o SubSeq(Hasher128_with_seed(seed).buf, hasher.len + 1, BLOCK128)

\* C3: a call of finish32, finish128 or finish leaves every field of the
\* hasher (accumulators, buf, len, consume) as it was.
FinalizeIsPureRead == [][op' \in FinishOps => hasher' = hasher]_vars

\* C3 happens: a finalize call was made on a hasher that is accumulating
FinalizeIsPureRead_Witness ==
    op \in FinishOps /\ hasher.len > 0 /\ hasher.consume > 0

\* C4: a finalize call that follows another finalize call, with no write in
\* between, returns the same value: the same result for the same call, and the
\* same 64-bit value between finish and finish32 / finish128.
FinalizeIdempotent ==
    [][(op \in FinishOps /\ op' \in FinishOps) =>
           /\ op' = op => ret' = ret
           /\ First64(op', ret') = First64(op, ret)]_vars

\* C4 happens: two finalize calls in a row on a hasher with bytes pending
FinalizeIdempotent_Witness ==
    op \in FinishOps /\ prev = "finalize" /\ hasher.len > 0 /\ hasher.consume > 0

\* C5: in any interleaving of writes and finalize calls, every finish32 /
\* finish128 returns the one-shot hash of exactly the bytes written before it,
\* and after a write that follows a finalize call the hasher still finalizes
\* to the one-shot hash of all the bytes written.
FinalizeReflectsBytesSoFar ==
    [][/\ op' \in {"finish32", "finish128"} => ret' = OneShot(kind', input', seed')
       /\ (op \in FinishOps /\ op' = "write") =>
              Finalize(kind', hasher') = OneShot(kind', input', seed')]_vars

\* C5 happens: a write of at least one byte was made right after a finalize call,
\* on a hasher that had mixed a block and has bytes pending
FinalizeReflectsBytesSoFar_Witness ==
    /\ op = "write" /\ prev = "finalize"
    /\ hasher.consume > 0 /\ hasher.len > 0

\* C6: after construction and after every call, len is below the block size.
PendingBelowBlock ==
    /\ kind = "Hasher32" => hasher.len < BLOCK32
    /\ kind = "Hasher128" => hasher.len < BLOCK128

\* C6 happens: a write left the pending buffer one byte short of a block
PendingBelowBlock_Witness ==
    /\ op = "write" /\ kind = "Hasher128"
    /\ hasher.len = BLOCK128 - 1 /\ hasher.consume > 0

\* C7: consume + len is the number of bytes written so far.
ConsumePlusLenIsTotal == hasher.consume + hasher.len = Len(input)

\* C7 happens: the whole message was written to a Hasher128, some of it
\* consumed and some of it pending
ConsumePlusLenIsTotal_Witness ==
    /\ op = "write" /\ kind = "Hasher128"
    /\ hasher.consume > 0 /\ hasher.len > 0
    /\ Len(input) = MaxInput128

\* C8: consume is a multiple of the block size, and the accumulators are the
\* seed with exactly consume / block size blocks of the input mixed in: each
\* block mixed added one block size to consume.
ConsumeCountsBlocks ==
    /\ kind = "Hasher32" =>
           /\ hasher.consume % BLOCK32 = 0
           /\ hasher.h = blocks32(input, 0, hasher.consume \div BLOCK32, seed)
    /\ kind = "Hasher128" =>
           /\ hasher.consume % BLOCK128 = 0
           /\ <<hasher.h1, hasher.h2>> =
                  blocks128(input, 0, hasher.consume \div BLOCK128, <<AsU64(seed), AsU64(seed)>>)

\* C8 happens: two blocks were mixed into a Hasher32
ConsumeCountsBlocks_Witness ==
    kind = "Hasher32" /\ hasher.consume = 2 * BLOCK32 /\ op = "write"

\* C9: no call makes a memory access outside its bounds: copies into buf stay
\* in [0, block size), reads of the slice stay in the slice, and a finalize
\* reads only buf[0 .. len).
NoOutOfBounds == ~fault

\* C9 happens: a write completed a pending block, mixed another block from the
\* slice and left bytes pending
NoOutOfBounds_Witness ==
    /\ op = "write" /\ kind = "Hasher128"
    /\ hasher.consume = 2 * BLOCK128 /\ hasher.len > 0
    /\ hasher.buf # SubSeq(input, hasher.consume + 1, hasher.consume + hasher.len)
                         \o SubSeq(Hasher128_with_seed(seed).buf, hasher.len + 1, BLOCK128)

\* C10: with_seed(seed) gives accumulators equal to the seed (h for Hasher32;
\* h1 and h2, the seed zero-extended, for Hasher128), len 0 and consume 0.
WithSeedIsInitial ==
    op = "with_seed" =>
        /\ hasher.len = 0
        /\ hasher.consume = 0
        /\ kind = "Hasher32" => hasher.h = seed
        /\ kind = "Hasher128" =>
               /\ hasher.h1 = seed \o <<0, 0, 0, 0>>
               /\ hasher.h2 = seed \o <<0, 0, 0, 0>>

\* C10 happens: a Hasher128 was just built with a seed whose top bit is set
WithSeedIsInitial_Witness ==
    op = "with_seed" /\ kind = "Hasher128" /\ seed[4] >= 128

\* C11: with seed 0 and nothing written (no write, or only empty writes),
\* murmurhash3_x86_32("", 0) = 0x00000000 and murmurhash3_x64_128("", 0) =
\* (0, 0), and the hasher finalizes to the same values.
EmptyInputSeedZero ==
    (seed = <<0, 0, 0, 0>> /\ input = <<>>) =>
        /\ murmurhash3_x86_32(input, seed) = <<0, 0, 0, 0>>
        /\ murmurhash3_x64_128(input, seed) =
               <<(<<0, 0, 0, 0, 0, 0, 0, 0>>), (<<0, 0, 0, 0, 0, 0, 0, 0>>)>>
        /\ kind = "Hasher32" => Hasher32_finish32(hasher) = <<0, 0, 0, 0>>
        /\ kind = "Hasher128" =>
               Hasher128_finish128(hasher) =
                   <<(<<0, 0, 0, 0, 0, 0, 0, 0>>), (<<0, 0, 0, 0, 0, 0, 0, 0>>)>>
        /\ op = "finish32" => ret = <<0, 0, 0, 0>>
        /\ op = "finish128" =>
               ret = <<(<<0, 0, 0, 0, 0, 0, 0, 0>>), (<<0, 0, 0, 0, 0, 0, 0, 0>>)>>

\* C11 happens: finish128 was called on a hasher built with seed 0 to which
\* nothing, or only empty slices, had been written
EmptyInputSeedZero_Witness ==
    seed = <<0, 0, 0, 0>> /\ input = <<>> /\ op = "finish128" /\ prev = "update"

\* C12: Hasher::finish returns finish32 zero-extended to 64 bits (upper 32
\* bits 0) on a Hasher32, and the first component of finish128 on a Hasher128.
FinishAdapter ==
    op = "finish" =>
        /\ kind = "Hasher32" =>
               /\ SubSeq(ret, 1, 4) = Hasher32_finish32(hasher)
               /\ SubSeq(ret, 5, 8) = <<0, 0, 0, 0>>
        /\ kind = "Hasher128" => ret = Hasher128_finish128(hasher)[1]

\* C12 happens: finish was called on a Hasher32 whose 32-bit result has its
\* top bit set, so zero extension and sign extension differ
FinishAdapter_Witness ==
    op = "finish" /\ kind = "Hasher32" /\ ret[4] >= 128 /\ hasher.len > 0

(***************************************************************************)
(* Vocabulary of the claims about one write call.  A step with             *)
(* op' = "write" is one call of Hasher::write: hasher is self before the   *)
(* call, hasher' self after it, and the slice passed is what the call      *)
(* added to input.                                                         *)
(***************************************************************************)
\* the block size of the engine of kind k: the length of buf
BlockSize(k) == IF k = "Hasher32" THEN BLOCK32 ELSE BLOCK128

\* the `bytes` argument of the write call this step is
Incoming == SubSeq(input', Len(input) + 1, Len(input'))

\* the accumulator(s) of a hasher of kind k: h, or (h1, h2)
Accumulators(k, self) == IF k = "Hasher32" THEN self.h ELSE <<self.h1, self.h2>>

\* the accumulators acc after mixing the first n whole blocks of bytes in order
MixBlocks(k, bytes, n, acc) ==
    IF k = "Hasher32" THEN blocks32(bytes, 0, n, acc) ELSE blocks128(bytes, 0, n, acc)

\* C13 as stated: the hasher starts Empty, a partial write moves it to
\* Accumulating, and once Accumulating every further write leaves it
\* Accumulating.
AccumulatingIsAbsorbing ==
    /\ hasher.len = 0
    /\ [][op' = "write" =>
            /\ (hasher.len = 0 /\ Len(Incoming) \in 1..(BlockSize(kind) - 1)) =>
                   hasher'.len \in 1..(BlockSize(kind) - 1)
            /\ hasher.len > 0 => hasher'.len \in 1..(BlockSize(kind) - 1)]_vars

\* C13 amended: the hasher starts Empty, a partial write moves it to
\* Accumulating, and a write to an Accumulating hasher leaves it Accumulating
\* unless pending + incoming length is a multiple of the block size, in which
\* case it returns to Empty.
AccumulatingUntilBlockBoundary ==
    /\ hasher.len = 0
    /\ [][op' = "write" =>
            /\ (hasher.len = 0 /\ Len(Incoming) \in 1..(BlockSize(kind) - 1)) =>
                   hasher'.len \in 1..(BlockSize(kind) - 1)
            /\ hasher.len > 0 =>
                   IF (hasher.len + Len(Incoming)) % BlockSize(kind) = 0
                   THEN hasher'.len = 0
                   ELSE hasher'.len \in 1..(BlockSize(kind) - 1)]_vars

\* C13 happens: a write left the hasher Empty after a pending block had been
\* completed, the buffer still holding the bytes of that block
AccumulatingUntilBlockBoundary_Witness ==
    /\ op = "write"
    /\ hasher.len = 0
    /\ hasher.consume = BlockSize(kind)
    /\ hasher.buf = input

\* C14: a write with pending + incoming < block size mixes nothing: the
\* accumulators and consume are unchanged, the pending bytes are unchanged,
\* the incoming bytes lie directly after them in order, len grows by the
\* incoming length, and an empty write changes nothing at all.
AppendStepOne ==
    [][(op' = "write" /\ hasher.len + Len(Incoming) < BlockSize(kind)) =>
          /\ Accumulators(kind, hasher') = Accumulators(kind, hasher)
          /\ hasher'.consume = hasher.consume
          /\ hasher'.len = hasher.len + Len(Incoming)
          /\ SubSeq(hasher'.buf, 1, hasher.len) = SubSeq(hasher.buf, 1, hasher.len)
          /\ SubSeq(hasher'.buf, hasher.len + 1, hasher'.len) = Incoming
          /\ Incoming = <<>> => hasher' = hasher]_vars

\* C14 happens: every write so far was a step-1 write (nothing was mixed), and
\* the three bytes written lie in the buffer in order
AppendStepOne_Witness ==
    /\ op = "write"
    /\ kind = "Hasher32"
    /\ hasher.consume = 0
    /\ hasher.len = 3
    /\ SubSeq(hasher.buf, 1, 3) = input

\* C15: a write with pending non-empty and pending + incoming >= block size
\* takes exactly (block size - pending) bytes from the front of the incoming
\* slice, mixes the completed block (the old pending bytes followed by that
\* prefix, little-endian) before any block read directly from the input, and
\* clears pending before it goes on: what is pending afterwards comes from
\* behind that prefix only.
AppendStepTwo ==
    [][(op' = "write" /\ hasher.len > 0
                      /\ hasher.len + Len(Incoming) >= BlockSize(kind)) =>
          LET cnt   == BlockSize(kind) - hasher.len
              block == SubSeq(hasher.buf, 1, hasher.len) \o SubSeq(Incoming, 1, cnt)
              rest  == SubSeq(Incoming, cnt + 1, Len(Incoming))
              n     == Len(rest) \div BlockSize(kind)
              first == MixBlocks(kind, block, 1, Accumulators(kind, hasher))
          IN  /\ Accumulators(kind, hasher') = MixBlocks(kind, rest, n, first)
              /\ hasher'.consume = hasher.consume + BlockSize(kind) * (1 + n)
              /\ hasher'.len = Len(rest) % BlockSize(kind)
              /\ SubSeq(hasher'.buf, 1, hasher'.len) =
                     SubSeq(rest, BlockSize(kind) * n + 1, Len(rest))]_vars

\* C15 happens: the first block was completed in the buffer (its bytes beyond
\* the new pending ones are still there), and the bytes that followed it in
\* the same or a later write are pending at the front
AppendStepTwo_Witness ==
    /\ op = "write"
    /\ kind = "Hasher128"
    /\ hasher.consume = 16
    /\ hasher.len \in 1..15
    /\ SubSeq(hasher.buf, hasher.len + 1, 16) = SubSeq(input, hasher.len + 1, 16)
    /\ SubSeq(hasher.buf, 1, hasher.len) = SubSeq(input, 17, Len(input))

\* C16: a write with old pending p and incoming n, p + n >= block size, mixes
\* exactly floor((p + n) / block size) blocks in input order and ends with
\* len = (p + n) mod block size, the first len bytes of the buffer being the
\* last len bytes of the incoming slice in order.
AppendStepsThreeFour ==
    [][(op' = "write" /\ hasher.len + Len(Incoming) >= BlockSize(kind)) =>
          LET stream == SubSeq(hasher.buf, 1, hasher.len) \o Incoming
              q      == Len(stream) \div BlockSize(kind)
          IN  /\ Accumulators(kind, hasher') =
                     MixBlocks(kind, stream, q, Accumulators(kind, hasher))
              /\ hasher'.consume = hasher.consume + BlockSize(kind) * q
              /\ hasher'.len = Len(stream) % BlockSize(kind)
              /\ SubSeq(hasher'.buf, 1, hasher'.len) =
                     SubSeq(Incoming, Len(Incoming) - hasher'.len + 1, Len(Incoming))]_vars

\* C16 happens: two blocks were mixed and one byte, the last one written, is
\* left pending at the front of the buffer
AppendStepsThreeFour_Witness ==
    /\ op = "write"
    /\ kind = "Hasher32"
    /\ hasher.consume = 8
    /\ hasher.len = 1
    /\ hasher.buf[1] = input[9]

(***************************************************************************)
(* Vocabulary of the claims about finalization.                            *)
(***************************************************************************)
\* the 32-bit result when no tail is mixed: fmix32(h XOR length)
NoTail32(h, total) == fmix32(WXor(h, AsU32(U64(total))))

\* the 128-bit result when no tail is mixed: (h1 XOR length, h2 XOR length)
\* cross-added, each half through fmix64, cross-added again
NoTail128(h1, h2, total) ==
    LET x1 == WXor(h1, U64(total))
        x2 == WXor(h2, U64(total))
        y1 == WAdd(x1, x2)
        y2 == WAdd(x2, y1)
        z1 == fmix64(y1)
        z2 == fmix64(y2)
        r1 == WAdd(z1, z2)
    IN  <<r1, WAdd(z2, r1)>>

\* the result of either engine when no tail is mixed
NoTail(k, acc, total) ==
    IF k = "Hasher32" THEN NoTail32(acc, total) ELSE NoTail128(acc[1], acc[2], total)

\* the accumulators of the one-shot function of kind k before its first block
SeedAccumulators(k, s) == IF k = "Hasher32" THEN s ELSE <<AsU64(s), AsU64(s)>>

\* C17: with tail length 0 finalization skips the tail mix: the result is
\* fmix32(h XOR length), or the cross-add / fmix64 / cross-add of
\* (h1 XOR length, h2 XOR length); so for the one-shot functions on a whole
\* number of blocks, and for a hasher with len = 0 whatever its buffer holds.
ZeroTailSkipsTailMix ==
    /\ hasher.len = 0 =>
           /\ Finalize(kind, hasher) =
                  NoTail(kind, Accumulators(kind, hasher), hasher.consume)
           /\ op \in {"finish32", "finish128"} =>
                  ret = NoTail(kind, Accumulators(kind, hasher), hasher.consume)
    /\ Len(input) % BlockSize(kind) = 0 =>
           OneShot(kind, input, seed) =
               NoTail(kind,
                      MixBlocks(kind, input, Len(input) \div BlockSize(kind),
                                SeedAccumulators(kind, seed)),
                      Len(input))

\* C17 happens: finish32 was called on a hasher with nothing pending whose
\* buffer still holds the bytes of the block it completed last
ZeroTailSkipsTailMix_Witness ==
    /\ op = "finish32"
    /\ hasher.len = 0
    /\ hasher.consume = 4
    /\ hasher.buf = input
    /\ hasher.buf # <<0, 0, 0, 0>>

\* the bytes assembled little-endian into a word of w bytes: byte i at bit
\* position 8 * i, zero above the last byte
LeWord(bytes, w) == bytes \o Tuple([i \in 1..(w - Len(bytes)) |-> 0])

\* the 128-bit result over accumulators (h1, h2) and a tail of 1..15 bytes,
\* as the specification words it
TailMixed128(tl, h1, h2, total) ==
    LET t  == Len(tl)
        w1 == LeWord(SubSeq(tl, 1, IF t < 8 THEN t ELSE 8), 8)
        w2 == LeWord(SubSeq(tl, 9, t), 8)
        k1 == WMul(WRotl(WMul(w1, C1_64), 31), C2_64)
        k2 == WMul(WRotl(WMul(w2, C2_64), 33), C1_64)
    IN  NoTail128(WXor(h1, k1), IF t > 8 THEN WXor(h2, k2) ELSE h2, total)

\* C18: for every tail length t in 1..15, tail bytes 0..min(t,8)-1 form a
\* little-endian word that is mixed (x C1, rotl 31, x C2) and XORed into h1;
\* bytes 8..t-1 form a second word, mixed (x C2, rotl 33, x C1) and XORed into
\* h2, only when t > 8; every tail byte is used once and no byte at or beyond
\* the end is read.  So for finish128 on the pending bytes and for the
\* one-shot function on the bytes behind the last whole block.
TailMix128 ==
    kind = "Hasher128" =>
        /\ hasher.len \in 1..15 =>
               /\ Hasher128_finish128(hasher) =
                      TailMixed128(SubSeq(hasher.buf, 1, hasher.len),
                                   hasher.h1, hasher.h2, hasher.consume + hasher.len)
               /\ finish_tail128_reads(hasher.buf, 0, hasher.len) = 0..(hasher.len - 1)
               /\ op = "finish128" =>
                      ret = TailMixed128(SubSeq(hasher.buf, 1, hasher.len),
                                         hasher.h1, hasher.h2,
                                         hasher.consume + hasher.len)
        /\ Len(input) % 16 \in 1..15 =>
               LET nblocks == Len(input) \div 16
                   hs      == blocks128(input, 0, nblocks, <<AsU64(seed), AsU64(seed)>>)
               IN  /\ murmurhash3_x64_128(input, seed) =
                          TailMixed128(SubSeq(input, 16 * nblocks + 1, Len(input)),
                                       hs[1], hs[2], Len(input))
                   /\ finish_tail128_reads(input, 16 * nblocks, Len(input)) =
                          (16 * nblocks)..(Len(input) - 1)

\* C18 happens: finish128 was called with 15 bytes pending, so both tail words
\* were assembled, the second from 7 bytes
TailMix128_Witness ==
    /\ op = "finish128"
    /\ hasher.len = 15
    /\ hasher.consume = 16

\* the 32-bit result over accumulator h and a tail of 1..3 bytes, every tail
\* byte i at bit position 8 * i of the word mixed in
TailMixed32(tl, h, total) ==
    NoTail32(WXor(h, WMul(WRotl(WMul(LeWord(tl, 4), C1_32), 15), C2_32)), total)

\* C19: on every call of finish_tail32 from murmurhash3_x86_32 or finish32
\* the tail length (end - tail) is between 0 and 3, so the 3-iteration loop
\* takes in every tail byte i at bit position 8 * i and stops only at the end
\* of the tail.
TailLoop32DropsNoByte ==
    kind = "Hasher32" =>
        /\ hasher.len \in 0..3
        /\ Len(input) - 4 * (Len(input) \div 4) \in 0..3
        /\ hasher.len > 0 =>
               /\ tail_loop(hasher.buf, 0, hasher.len, 0, TailIters32, U32(0)) =
                      [k |-> LeWord(SubSeq(hasher.buf, 1, hasher.len), 4),
                       tail |-> hasher.len]
               /\ Hasher32_finish32(hasher) =
                      TailMixed32(SubSeq(hasher.buf, 1, hasher.len), hasher.h,
                                  hasher.consume + hasher.len)
               /\ op = "finish32" =>
                      ret = TailMixed32(SubSeq(hasher.buf, 1, hasher.len), hasher.h,
                                        hasher.consume + hasher.len)
        /\ Len(input) % 4 > 0 =>
               LET nblocks == Len(input) \div 4
               IN  /\ tail_loop(input, 4 * nblocks, Len(input), 0, TailIters32, U32(0)) =
                          [k |-> LeWord(SubSeq(input, 4 * nblocks + 1, Len(input)), 4),
                           tail |-> Len(input)]
                   /\ murmurhash3_x86_32(input, seed) =
                          TailMixed32(SubSeq(input, 4 * nblocks + 1, Len(input)),
                                      blocks32(input, 0, nblocks, seed), Len(input))

\* C19 happens: finish32 was called with the longest tail, 3 bytes pending
\* behind a mixed block
TailLoop32DropsNoByte_Witness ==
    /\ op = "finish32"
    /\ hasher.len = 3
    /\ hasher.consume = 4

\* the new h1 of a block step: h1 ^= mixed k1; rotl 27; h1 += old h2;
\* h1 = h1 * 5 + C3, modulo 2^64
CrossMixH1(h1, oldh2, k1) ==
    LET m1 == WMul(WRotl(WMul(k1, C1_64), 31), C2_64)
    IN  WAdd(WMul(WAdd(WRotl(WXor(h1, m1), 27), oldh2), U64(5)), C3_64)

\* the new h2 of a block step: h2 ^= mixed k2; rotl 31; h2 += new h1;
\* h2 = h2 * 5 + C4, modulo 2^64
CrossMixH2(h2, newh1, k2) ==
    LET m2 == WMul(WRotl(WMul(k2, C2_64), 33), C1_64)
    IN  WAdd(WMul(WAdd(WRotl(WXor(h2, m2), 31), newh1), U64(5)), C4_64)

\* C20: a block step of the 128-bit engine first updates h1 from the mixed
\* k1 and the OLD h2, and only then h2 from the mixed k2 and the NEW h1, all
\* modulo 2^64: the accumulators after q >= 1 blocks are that step applied to
\* the accumulators after q - 1 blocks and the words of block q.
Feed128CrossMixOrder ==
    (kind = "Hasher128" /\ hasher.consume >= 16) =>
        LET q   == hasher.consume \div 16
            old == blocks128(input, 0, q - 1, <<AsU64(seed), AsU64(seed)>>)
            k1  == SubSeq(input, 16 * q - 15, 16 * q - 8)
            k2  == SubSeq(input, 16 * q - 7, 16 * q)
        IN  /\ hasher.h1 = CrossMixH1(old[1], old[2], k1)
            /\ hasher.h2 = CrossMixH2(old[2], hasher.h1, k2)
            /\ feed128(old[1], old[2], k1, k2) = <<hasher.h1, hasher.h2>>

\* C20 happens: a write has fed two blocks, the second on accumulators the
\* first had already changed
Feed128CrossMixOrder_Witness ==
    /\ kind = "Hasher128"
    /\ op = "write"
    /\ hasher.consume = 32
    /\ hasher.h1 # hasher.h2

(***************************************************************************)
(* Two chunkings of one byte sequence.  The hasher of a state was fed      *)
(* input in the slices of the run that reached it; OneWrite is the hasher  *)
(* of the same kind and seed fed the same bytes in a single write call.    *)
(***************************************************************************)
\* what a hasher of kind k shows: accumulator(s), consume, len and the
\* pending bytes buf[0 .. len)
Observable(k, self) ==
    [acc     |-> Accumulators(k, self),
     consume |-> self.consume,
     len     |-> self.len,
     pending |-> SubSeq(self.buf, 1, self.len)]

\* the hasher of kind k after with_seed(s) and one write of all of bytes
OneWrite(k, s, bytes) ==
    IF k = "Hasher32" THEN Hasher32_write(Hasher32_with_seed(s), bytes)
    ELSE Hasher128_write(Hasher128_with_seed(s), bytes)

\* self with every buffer byte at an index >= len replaced by b
Restale(self, b) ==
    [self EXCEPT !.buf = Tuple([i \in 1..Len(self.buf) |->
                                   IF i <= self.len THEN self.buf[i] ELSE b])]

\* C21: chunking leaves no trace in the observable state: a hasher fed the
\* bytes of input in any slices has the accumulator(s), consume, len and
\* first len buffer bytes of the hasher of the same kind and seed fed them in
\* one write (so any two chunkings agree); the buffer bytes at indices >= len
\* may differ, and no finalize result depends on them.
ChunkingLeavesNoTrace ==
    /\ Observable(kind, hasher) = Observable(kind, OneWrite(kind, seed, input))
    /\ \A b \in {0, 90, 255} :
           Finalize(kind, Restale(hasher, b)) = Finalize(kind, hasher)
    /\ Finalize(kind, hasher) = Finalize(kind, OneWrite(kind, seed, input))
    /\ op \in {"finish32", "finish128"} =>
           ret = Finalize(kind, OneWrite(kind, seed, input))
    /\ op = "finish" =>
           ret = First64(IF kind = "Hasher32" THEN "finish32" ELSE "finish128",
                         Finalize(kind, OneWrite(kind, seed, input)))

\* C21 happens: a finalize call on a hasher with bytes pending whose buffer,
\* at an index >= len, differs from that of the hasher fed the same bytes in
\* one write
ChunkingLeavesNoTrace_Witness ==
    /\ op \in {"finish32", "finish128"}
    /\ hasher.len > 0
    /\ hasher.consume > 0
    /\ hasher.buf # OneWrite(kind, seed, input).buf

====
